---- MODULE Spec2Model ----
(***************************************************************************)
(* RowHeightCache of ngx-datatable: a Fenwick tree over the row heights,   *)
(* with a swap tree that answers while a rebuild is in progress.           *)
(* Array index k of the source is position k + 1 of a TLA+ sequence.       *)
(***************************************************************************)
EXTENDS Integers, Sequences, FiniteSets, TLC

(* ------------------------------ bounds ------------------------------- *)

\* Longest row list handed to initCache.
MaxRows == 3

\* update / set calls accepted after the last initCache call.
MaxUpdates == 1

\* Longest row list of a build with the last-row spacer: a tree of 4 slots
\* is the shortest in which two rows that carry the spacer lie under one
\* Fenwick node (rows 0 and 2, or 0 and 3, under slot 3).
SpacerRows == 4

(* --------------------------- primitive steps -------------------------- *)

RECURSIVE BitOr(_, _)
\* a | b on non-negative integers.
BitOr(a, b) ==
  IF a = 0 THEN b
  ELSE IF b = 0 THEN a
  ELSE (IF a % 2 = 1 \/ b % 2 = 1 THEN 1 ELSE 0) + 2 * BitOr(a \div 2, b \div 2)

RECURSIVE BitAnd(_, _)
\* a & b on non-negative integers.
BitAnd(a, b) ==
  IF a = 0 \/ b = 0 THEN 0
  ELSE (IF a % 2 = 1 /\ b % 2 = 1 THEN 1 ELSE 0) + 2 * BitAnd(a \div 2, b \div 2)

\* x |= 0 : an integer within the signed 32-bit range, as every index of
\* the model is, is left as it is.
ToInt32(x) == x

\* One slot of the tree (interface RowHeightCacheData).
RowHeightCacheData(h, s) == [rowHeight |-> h, rowSpacerHeight |-> s]

\* this.swapTreeArray: null, or an array.
Null == [null |-> TRUE, arr |-> <<>>]
Arr(a) == [null |-> FALSE, arr |-> a]

\* Outcome of a call: err is "none", or the kind of exception thrown.
Ok(v) == [err |-> "none", val |-> v]
Thrown(kind) == [err |-> kind, val |-> 0]

(* ------------------------------- state -------------------------------- *)

VARIABLES
  treeArray,      \* the live tree
  swapTreeArray,  \* the tree kept as source of truth during a rebuild
  lastCall,       \* the last call made on the cache, with its arguments
  result,         \* what that call returned or threw
  built,          \* treeArray is the product of a successful initCache over >= 1 rows
  pending,        \* a clearCache of such a tree has not been followed by a
                  \* completed initCache, an update or a set
  preClear,       \* the live tree as it was at that clearCache
  started,        \* clearCache, or initCache with a valid configuration, was called
  dirty,          \* update or set has changed the snapshot since the last clearCache
  nUpdates        \* update / set calls since the last initCache call

vars == <<treeArray, swapTreeArray, lastCall, result, built, pending, preClear,
          started, dirty, nUpdates>>

\* The pair of arrays an operation reads and writes.
This == [treeArray |-> treeArray, swapTreeArray |-> swapTreeArray]

(* ------------------------- update and query -------------------------- *)

\* updateLoop without the climb to the Fenwick ancestors: only the slot at
\* atRowIndex is written.
updateLoop_noAncestors(source, atRowIndex, byRowHeight, spacerHeight) ==
  IF atRowIndex < Len(source)
  THEN [source EXCEPT ![atRowIndex + 1] =
          RowHeightCacheData(@.rowHeight + byRowHeight,
                             IF spacerHeight >= 0 THEN spacerHeight
                                                  ELSE @.rowSpacerHeight)]
  ELSE source

RECURSIVE updateLoop_clearSpacer(_, _, _, _)
\* updateLoop writing spacer 0 into the slots it visits when no spacer is
\* given.
updateLoop_clearSpacer(source, atRowIndex, byRowHeight, spacerHeight) ==
  IF atRowIndex < Len(source)
  THEN updateLoop_clearSpacer(
         [source EXCEPT ![atRowIndex + 1] =
            RowHeightCacheData(@.rowHeight + byRowHeight,
                               IF spacerHeight >= 0 THEN spacerHeight ELSE 0)],
         BitOr(atRowIndex, atRowIndex + 1), byRowHeight, spacerHeight)
  ELSE source

RECURSIVE updateLoop(_, _, _, _)
\* The while loop of update: add byRowHeight at atRowIndex and at every
\* Fenwick ancestor; a spacerHeight >= 0 overwrites the slot's spacer.
updateLoop(source, atRowIndex, byRowHeight, spacerHeight) ==
  IF atRowIndex < Len(source)
  THEN updateLoop(
         [source EXCEPT ![atRowIndex + 1] =
            RowHeightCacheData(@.rowHeight + byRowHeight,
                               IF spacerHeight >= 0 THEN spacerHeight
                                                    ELSE @.rowSpacerHeight)],
         BitOr(atRowIndex, atRowIndex + 1), byRowHeight, spacerHeight)
  ELSE source

\* update that knows the live tree only: with the live tree empty it
\* raises the uninitialized error, whether or not a snapshot is retained.
update_liveOnly(this, atRowIndex, byRowHeight, spacerHeight) ==
  IF Len(this.treeArray) = 0
  THEN [err |-> "uninitialized", treeArray |-> this.treeArray,
        swapTreeArray |-> this.swapTreeArray]
  ELSE [err |-> "none",
        treeArray |-> updateLoop(this.treeArray, ToInt32(atRowIndex),
                                 byRowHeight, spacerHeight),
        swapTreeArray |-> this.swapTreeArray]

\* update(atRowIndex, byRowHeight, spacerHeight = -1) on the arrays `this`:
\* the outcome and the arrays afterwards.  atRowIndex >= 0.
update(this, atRowIndex, byRowHeight, spacerHeight) ==
  IF Len(this.treeArray) = 0
  THEN IF this.swapTreeArray.null
       THEN [err |-> "uninitialized", treeArray |-> this.treeArray,
             swapTreeArray |-> this.swapTreeArray]
       ELSE [err |-> "none", treeArray |-> this.treeArray,
             swapTreeArray |->
               Arr(updateLoop(this.swapTreeArray.arr, ToInt32(atRowIndex),
                              byRowHeight, spacerHeight))]
  ELSE [err |-> "none",
        treeArray |-> updateLoop(this.treeArray, ToInt32(atRowIndex),
                                 byRowHeight, spacerHeight),
        swapTreeArray |-> this.swapTreeArray]

RECURSIVE queryLoop(_, _)
\* The while loop of query: descend from atIndex, adding height and spacer
\* of every slot visited.
queryLoop(source, atIndex) ==
  IF atIndex >= 0
  THEN source[atIndex + 1].rowHeight + source[atIndex + 1].rowSpacerHeight
       + queryLoop(source, BitAnd(atIndex, atIndex + 1) - 1)
  ELSE 0

\* The array query and update work on, when there is one.
sourceOf(this) ==
  IF Len(this.treeArray) = 0 THEN this.swapTreeArray.arr ELSE this.treeArray

\* query(atIndex).  Reading a slot past the end of the array is a TypeError.
query(this, atIndex) ==
  IF Len(this.treeArray) = 0 /\ this.swapTreeArray.null
  THEN Thrown("uninitialized")
  ELSE IF ToInt32(atIndex) >= Len(sourceOf(this))
       THEN Thrown("TypeError")
       ELSE Ok(queryLoop(sourceOf(this), ToInt32(atIndex)))

\* queryBetween subtracting the prefix sum up to atIndexA itself, so that
\* row atIndexA is left out of the range.
queryBetween_fromA(this, atIndexA, atIndexB) ==
  LET b == query(this, atIndexB)
      a == query(this, atIndexA)
  IN  IF b.err # "none" THEN b
      ELSE IF a.err # "none" THEN a
      ELSE Ok(b.val - a.val)

\* queryBetween(atIndexA, atIndexB) = query(atIndexB) - query(atIndexA - 1).
queryBetween(this, atIndexA, atIndexB) ==
  LET b == query(this, atIndexB)
      a == query(this, atIndexA - 1)
  IN  IF b.err # "none" THEN b
      ELSE IF a.err # "none" THEN a
      ELSE Ok(b.val - a.val)

\* set taking the difference from the stored height slot instead of from the
\* row's current height queryBetween returns.
set_fromSlot(this, atRowIndex, value) ==
  LET current == queryBetween(this, atRowIndex, atRowIndex)
      slot    == sourceOf(this)[atRowIndex + 1].rowHeight
      upd     == update(this, atRowIndex, value - slot, -1)
  IN  IF current.err # "none"
      THEN [err |-> current.err, val |-> FALSE, treeArray |-> this.treeArray,
            swapTreeArray |-> this.swapTreeArray]
      ELSE IF value # current.val
           THEN [err |-> upd.err, val |-> TRUE, treeArray |-> upd.treeArray,
                 swapTreeArray |-> upd.swapTreeArray]
           ELSE [err |-> "none", val |-> FALSE, treeArray |-> this.treeArray,
                 swapTreeArray |-> this.swapTreeArray]

\* set(atRowIndex, value): the outcome (val is the boolean returned) and the
\* arrays afterwards.
set(this, atRowIndex, value) ==
  LET current == queryBetween(this, atRowIndex, atRowIndex)
      upd     == update(this, atRowIndex, value - current.val, -1)
  IN  IF current.err # "none"
      THEN [err |-> current.err, val |-> FALSE, treeArray |-> this.treeArray,
            swapTreeArray |-> this.swapTreeArray]
      ELSE IF value # current.val
           THEN [err |-> upd.err, val |-> TRUE, treeArray |-> upd.treeArray,
                 swapTreeArray |-> upd.swapTreeArray]
           ELSE [err |-> "none", val |-> FALSE, treeArray |-> this.treeArray,
                 swapTreeArray |-> this.swapTreeArray]

(* ----------------------------- row lookup ----------------------------- *)

RECURSIVE highestBit(_)
\* Math.pow(2, dataLength.toString(2).length - 1), dataLength >= 1.
highestBit(dataLength) ==
  IF dataLength <= 1 THEN 1 ELSE 2 * highestBit(dataLength \div 2)

RECURSIVE calcLoop_strict(_, _, _, _)
\* calcLoop taking a block only when the sum is strictly above its height.
calcLoop_strict(tree, sum, pos, blockSize) ==
  IF blockSize = 0 THEN pos
  ELSE LET nextPos == pos + blockSize
       IN  IF nextPos < Len(tree)
              /\ sum > tree[nextPos + 1].rowHeight + tree[nextPos + 1].rowSpacerHeight
           THEN calcLoop_strict(tree,
                                sum - (tree[nextPos + 1].rowHeight
                                       - tree[nextPos + 1].rowSpacerHeight),
                                nextPos, blockSize \div 2)
           ELSE calcLoop_strict(tree, sum, pos, blockSize \div 2)

RECURSIVE calcLoop_keepSum(_, _, _, _)
\* calcLoop that takes a block without reducing the sum by its height.
calcLoop_keepSum(tree, sum, pos, blockSize) ==
  IF blockSize = 0 THEN pos
  ELSE LET nextPos == pos + blockSize
       IN  IF nextPos < Len(tree)
              /\ sum >= tree[nextPos + 1].rowHeight + tree[nextPos + 1].rowSpacerHeight
           THEN calcLoop_keepSum(tree, sum, nextPos, blockSize \div 2)
           ELSE calcLoop_keepSum(tree, sum, pos, blockSize \div 2)

RECURSIVE calcLoop(_, _, _, _)
\* The for loop of calcRowIndex, blockSize halving down to 0.
calcLoop(tree, sum, pos, blockSize) ==
  IF blockSize = 0 THEN pos
  ELSE LET nextPos == pos + blockSize
       IN  IF nextPos < Len(tree)
              /\ sum >= tree[nextPos + 1].rowHeight + tree[nextPos + 1].rowSpacerHeight
           THEN calcLoop(tree,
                         sum - (tree[nextPos + 1].rowHeight
                                - tree[nextPos + 1].rowSpacerHeight),
                         nextPos, blockSize \div 2)
           ELSE calcLoop(tree, sum, pos, blockSize \div 2)

\* calcRowIndex(sum): reads the live tree only.
calcRowIndex(this, sum) ==
  IF Len(this.treeArray) = 0 THEN 0
  ELSE calcLoop(this.treeArray, sum, -1, highestBit(Len(this.treeArray))) + 1

\* getRowIndex(scrollY).
getRowIndex(this, scrollY) ==
  IF scrollY = 0 THEN 0 ELSE calcRowIndex(this, scrollY)

(* ------------------------------ initCache ----------------------------- *)

\* A height setting: a callback, a number, or a value isNaN() is true of
\* (NaN, undefined, the string 'auto').
HeightFn == [kind |-> "function", val |-> 0]
HeightNum(v) == [kind |-> "number", val |-> v]
HeightNaN == [kind |-> "NaN", val |-> 0]
HeightAuto == [kind |-> "auto", val |-> 0]

\* typeof x === 'function'
isFn(x) == x.kind = "function"

\* isNaN(x) of a height setting.
isNaN(x) == x.kind # "number"

\* The rowHeight callback of the table: the row's own height.
rowHeightFn(row) == row.height

\* The detailRowHeight callback: a height that depends on the row's index.
detailRowHeightFn(row, index) == index + 1

\* currentRowHeight of row i once the loop body has added detail height and
\* group padding.  A row of the model is identified by its position in rows.
currentRowHeight(details, i) ==
  LET row      == details.rows[i + 1]
      base     == IF isFn(details.rowHeight) THEN rowHeightFn(row)
                  ELSE details.rowHeight.val
      expanded == i \in details.rowExpansions
      detail   == IF expanded
                  THEN IF isFn(details.detailRowHeight)
                       THEN detailRowHeightFn(row, details.rowIndexes[i + 1])
                       ELSE details.detailRowHeight.val
                  ELSE 0
      padding  == IF row.isRowGroup /\ details.groupPadding # 0
                  THEN details.groupPadding ELSE 0
  IN  base + detail + padding

\* rows[i + 1]?.isRowGroup
nextIsRowGroup(details, i) ==
  i + 1 < Len(details.rows) /\ details.rows[i + 2].isRowGroup

\* The condition under which row i is updated with the spacer.
carriesSpacer(details, n, i) ==
  /\ details.lastRowSpacerHeight # 0
  /\ ~details.rows[i + 1].isRowGroup
  /\ (i = n - 1 \/ nextIsRowGroup(details, i))

RECURSIVE initLoop(_, _, _, _)
\* The second for loop of initCache, from row i on.  rows[i] is undefined
\* past the end of rows, and reading row.isRowGroup then throws.
initLoop(this, details, n, i) ==
  IF i >= n
  THEN [err |-> "none", treeArray |-> this.treeArray, swapTreeArray |-> Null]
  ELSE IF i >= Len(details.rows)
  THEN [err |-> "TypeError", treeArray |-> this.treeArray,
        swapTreeArray |-> this.swapTreeArray]
  ELSE LET upd == update(this, i, currentRowHeight(details, i),
                         IF carriesSpacer(details, n, i)
                         THEN details.lastRowSpacerHeight ELSE -1)
       IN  IF upd.err # "none" THEN upd
           ELSE initLoop([treeArray |-> upd.treeArray,
                          swapTreeArray |-> upd.swapTreeArray],
                         details, n, i + 1)

\* initCache allocating the new tree before it validates the settings.
initCache_allocFirst(this, details) ==
  LET n == IF details.externalVirtual THEN details.rowCount
           ELSE Len(details.rows)
      fresh == [k \in 1..n |-> RowHeightCacheData(0, 0)]
  IN  IF (~isFn(details.rowHeight) /\ isNaN(details.rowHeight))
         \/ (~isFn(details.detailRowHeight) /\ isNaN(details.detailRowHeight))
      THEN [err |-> "config", treeArray |-> fresh,
            swapTreeArray |-> this.swapTreeArray]
      ELSE initLoop([treeArray |-> fresh, swapTreeArray |-> this.swapTreeArray],
                    details, n, 0)

\* initCache keeping the slots of a live tree of the right length instead of
\* starting from slots of height 0.
initCache_noReset(this, details) ==
  LET n == IF details.externalVirtual THEN details.rowCount
           ELSE Len(details.rows)
  IN  IF (~isFn(details.rowHeight) /\ isNaN(details.rowHeight))
         \/ (~isFn(details.detailRowHeight) /\ isNaN(details.detailRowHeight))
      THEN [err |-> "config", treeArray |-> this.treeArray,
            swapTreeArray |-> this.swapTreeArray]
      ELSE initLoop([treeArray |-> IF Len(this.treeArray) = n THEN this.treeArray
                                   ELSE [k \in 1..n |-> RowHeightCacheData(0, 0)],
                     swapTreeArray |-> this.swapTreeArray],
                    details, n, 0)

\* initCache(details): the outcome and the arrays afterwards.
initCache(this, details) ==
  IF ~isFn(details.rowHeight) /\ isNaN(details.rowHeight)
  THEN [err |-> "config", treeArray |-> this.treeArray,
        swapTreeArray |-> this.swapTreeArray]
  ELSE IF ~isFn(details.detailRowHeight) /\ isNaN(details.detailRowHeight)
  THEN [err |-> "config", treeArray |-> this.treeArray,
        swapTreeArray |-> this.swapTreeArray]
  ELSE LET n == IF details.externalVirtual THEN details.rowCount
                ELSE Len(details.rows)
       IN  initLoop([treeArray |-> [k \in 1..n |-> RowHeightCacheData(0, 0)],
                     swapTreeArray |-> this.swapTreeArray],
                    details, n, 0)

\* clearCache(): the arrays afterwards.
clearCache(this) ==
  [treeArray |-> <<>>, swapTreeArray |-> Arr(this.treeArray)]

(* ------------------------------- inputs ------------------------------- *)

PlainRow(h) == [height |-> h, isRowGroup |-> FALSE]
GroupRow(h) == [height |-> h, isRowGroup |-> TRUE]

\* The argument of initCache.  A row is identified by its position in rows:
\* rowIndexes maps every row to its position, rowExpansions holds positions.
Details(rows, rowHeight, detailRowHeight, externalVirtual, rowCount, rowExpansions, groupPadding, lastRowSpacerHeight) ==
  [rows |-> rows, rowHeight |-> rowHeight, detailRowHeight |-> detailRowHeight,
   externalVirtual |-> externalVirtual, rowCount |-> rowCount,
   rowIndexes |-> [k \in 1..Len(rows) |-> k - 1],
   rowExpansions |-> rowExpansions \cap (0..(Len(rows) - 1)),
   groupPadding |-> groupPadding, lastRowSpacerHeight |-> lastRowSpacerHeight]

\* Every list of at most MaxRows rows: plain rows of height 0 and 2, group
\* rows of height 1.
RowKinds == { PlainRow(0), PlainRow(2), GroupRow(1) }
RowLists == UNION { [1..n -> RowKinds] : n \in 0..MaxRows }

\* The settings of a first build: callback and fixed heights, expanded rows,
\* group padding, with and without the last-row spacer.
BuildInputs ==
  { Details(rows, c[1], c[2], FALSE, 0, c[3], c[4], c[5]) :
      rows \in RowLists,
      c \in { <<HeightFn, HeightNum(1), {}, 0, 0>>,
              <<HeightFn, HeightNum(1), {1}, 1, 0>>,
              <<HeightNum(1), HeightFn, {0}, 0, 0>>,
              <<HeightFn, HeightNum(1), {}, 0, 1>>,
              <<HeightFn, HeightFn, {0}, 1, 2>> } }

\* n plain rows of height 2.
UniformRows(n) == [k \in 1..n |-> PlainRow(2)]

\* n rows, plain (height 2, then 0) with a group row after each plain row.
GroupedRows(n) ==
  [k \in 1..n |-> IF k % 2 = 0 THEN GroupRow(1) ELSE PlainRow(2 - 2 * ((k \div 2) % 2))]

\* What a rebuild is called with during the life of a cache.
LocalInputs ==
  { Details(UniformRows(n), HeightFn, HeightNum(1), FALSE, 0, {}, 0, 0) :
      n \in 0..MaxRows }
  \cup
  { Details(GroupedRows(n), HeightFn, HeightNum(1), FALSE, 0, {0}, 1, 1) :
      n \in 1..MaxRows }

\* An externally declared row count, below and above the rows supplied.
VirtualInputs ==
  { Details(UniformRows(n), HeightFn, HeightNum(1), TRUE, n + more, {}, 0, 0) :
      n \in {1, MaxRows - 1}, more \in {-1, 1} }

\* Settings initCache rejects.
InvalidInputs ==
  { Details(UniformRows(1), HeightNaN, HeightNum(1), FALSE, 0, {}, 0, 0),
    Details(UniformRows(1), HeightFn, HeightAuto, FALSE, 0, {}, 0, 0) }

InitInputs == LocalInputs \cup VirtualInputs \cup InvalidInputs

\* Every list of 1..SpacerRows rows, each a plain row of height 2 or a group
\* row of height 1.
SpacerLists == UNION { [1..n -> {PlainRow(2), GroupRow(1)}] : n \in 1..SpacerRows }

\* Builds with a lastRowSpacerHeight: without and with an expanded row and
\* group padding.
SpacerInputs ==
  { Details(rows, HeightFn, HeightNum(1), FALSE, 0, c[1], c[2], c[3]) :
      rows \in SpacerLists, c \in { <<{}, 0, 1>>, <<{0}, 1, 2>> } }

RowIndexes == 0..(MaxRows - 1)
UpdateArgs == { <<2, -1>> }
SetValues == {3}
ScrollYs == {0, 1, 2, 2 * MaxRows}

(* ------------------------------- actions ------------------------------ *)

Init ==
  /\ treeArray = <<>>
  /\ swapTreeArray = Null
  /\ lastCall = [op |-> "new"]
  /\ result = Ok(0)
  /\ built = FALSE
  /\ pending = FALSE
  /\ preClear = <<>>
  /\ started = FALSE
  /\ dirty = FALSE
  /\ nUpdates = 0

ClearCache ==
  LET r == clearCache(This)
  IN  /\ treeArray' = r.treeArray
      /\ swapTreeArray' = r.swapTreeArray
      /\ lastCall' = [op |-> "clearCache"]
      /\ result' = Ok(0)
      /\ built' = FALSE
      /\ pending' = (built \/ pending)
      /\ preClear' = IF built THEN treeArray ELSE preClear
      /\ started' = TRUE
      /\ dirty' = FALSE
      /\ UNCHANGED nUpdates

InitCacheOver(inputs) ==
  \E details \in inputs :
    \E r \in {initCache(This, details)} :
        /\ treeArray' = r.treeArray
        /\ swapTreeArray' = r.swapTreeArray
        /\ lastCall' = [op |-> "initCache", details |-> details]
        /\ result' = [err |-> r.err, val |-> 0]
        /\ built' = IF r.err = "none" THEN Len(r.treeArray) >= 1
                    ELSE IF r.err = "config" THEN built ELSE FALSE
        /\ pending' = IF r.err = "none" THEN FALSE ELSE pending
        /\ preClear' = IF r.err = "none" THEN <<>> ELSE preClear
        /\ started' = (started \/ r.err # "config")
        /\ nUpdates' = IF r.err = "none" THEN 0 ELSE nUpdates
        /\ UNCHANGED dirty

\* initCache, called at any time in the life of the cache.
InitCache == InitCacheOver(InitInputs)

\* The first initCache of a new cache.
Build == ~started /\ InitCacheOver(BuildInputs)

Update ==
  /\ nUpdates < MaxUpdates
  /\ \E atRowIndex \in RowIndexes, a \in UpdateArgs :
       \E r \in {update(This, atRowIndex, a[1], a[2])} :
           /\ treeArray' = r.treeArray
           /\ swapTreeArray' = r.swapTreeArray
           /\ lastCall' = [op |-> "update", atRowIndex |-> atRowIndex,
                           byRowHeight |-> a[1], spacerHeight |-> a[2]]
           /\ result' = [err |-> r.err, val |-> 0]
           /\ dirty' = (dirty \/ r.swapTreeArray # swapTreeArray)
  /\ pending' = FALSE
  /\ preClear' = <<>>
  /\ nUpdates' = nUpdates + 1
  /\ UNCHANGED <<built, started>>

Set ==
  /\ nUpdates < MaxUpdates
  /\ \E atRowIndex \in RowIndexes, value \in SetValues :
       \E r \in {set(This, atRowIndex, value)} :
           /\ treeArray' = r.treeArray
           /\ swapTreeArray' = r.swapTreeArray
           /\ lastCall' = [op |-> "set", atRowIndex |-> atRowIndex, value |-> value]
           /\ result' = [err |-> r.err, val |-> r.val]
           /\ dirty' = (dirty \/ r.swapTreeArray # swapTreeArray)
  /\ pending' = FALSE
  /\ preClear' = <<>>
  /\ nUpdates' = nUpdates + 1
  /\ UNCHANGED <<built, started>>

Query ==
  /\ \E atIndex \in {-1, 0, MaxRows - 1} :
       /\ lastCall' = [op |-> "query", atIndex |-> atIndex]
       /\ result' = query(This, atIndex)
  /\ UNCHANGED <<treeArray, swapTreeArray, built, pending, preClear, started, dirty,
               nUpdates>>

QueryBetween ==
  /\ \E atIndexA \in RowIndexes, atIndexB \in RowIndexes :
       /\ atIndexB \in {atIndexA, MaxRows - 1}
       /\ lastCall' = [op |-> "queryBetween", atIndexA |-> atIndexA,
                       atIndexB |-> atIndexB]
       /\ result' = queryBetween(This, atIndexA, atIndexB)
  /\ UNCHANGED <<treeArray, swapTreeArray, built, pending, preClear, started, dirty,
               nUpdates>>

GetRowIndex ==
  /\ \E scrollY \in ScrollYs :
       /\ lastCall' = [op |-> "getRowIndex", scrollY |-> scrollY]
       /\ result' = Ok(getRowIndex(This, scrollY))
  /\ UNCHANGED <<treeArray, swapTreeArray, built, pending, preClear, started, dirty,
               nUpdates>>

Next ==
  \/ ClearCache
  \/ InitCache
  \/ Update
  \/ Set
  \/ Query
  \/ QueryBetween
  \/ GetRowIndex

Spec == Init /\ [][Next]_vars

\* A new cache built once and then read.
NextBuild ==
  \/ Build
  \/ Query
  \/ QueryBetween
  \/ GetRowIndex

SpecBuild == Init /\ [][NextBuild]_vars

\* The calls that change the cache. query, queryBetween and getRowIndex
\* assign no field, so the arrays reached here are the arrays Spec reaches.
NextWrite ==
  \/ ClearCache
  \/ InitCache
  \/ Update
  \/ Set

SpecWrite == Init /\ [][NextWrite]_vars

\* The first initCache of a new cache, with a lastRowSpacerHeight.
BuildSpacer == ~started /\ InitCacheOver(SpacerInputs)

\* A new cache built once with the last-row spacer and then read.
NextSpacer ==
  \/ BuildSpacer
  \/ Query
  \/ QueryBetween
  \/ GetRowIndex

SpecSpacer == Init /\ [][NextSpacer]_vars

(* ------------------------------- claims ------------------------------- *)

\* The last call was an initCache that returned normally.
InitCacheDone == lastCall.op = "initCache" /\ result.err = "none"

\* Height of row i as the claims compute it: the base height (fixed, or the
\* callback's), the detail height of an expanded row, the padding of a
\* group row.
ComputedHeight(details, i) ==
  (IF details.rowHeight.kind = "number" THEN details.rowHeight.val
   ELSE rowHeightFn(details.rows[i + 1]))
  + (IF i \in details.rowExpansions
     THEN IF details.detailRowHeight.kind = "number"
          THEN details.detailRowHeight.val
          ELSE detailRowHeightFn(details.rows[i + 1], details.rowIndexes[i + 1])
     ELSE 0)
  + (IF details.rows[i + 1].isRowGroup THEN details.groupPadding ELSE 0)

RECURSIVE ComputedSum(_, _, _)
\* Sum of the computed heights of rows a..b.
ComputedSum(details, a, b) ==
  IF a > b THEN 0
  ELSE ComputedHeight(details, b) + ComputedSum(details, a, b - 1)

\* C1: after a successful initCache over n >= 1 rows with no
\* lastRowSpacerHeight, query(i) is the sum of the computed heights of rows
\* 0..i for every i in 0..n-1, and query(-1) is 0.
C1_QueryIsPrefixSum ==
  (InitCacheDone /\ Len(treeArray) >= 1
   /\ lastCall.details.lastRowSpacerHeight = 0)
  => /\ \A i \in 0..(Len(treeArray) - 1) :
          query(This, i) = Ok(ComputedSum(lastCall.details, 0, i))
     /\ query(This, -1) = Ok(0)

\* C1 witness: a build of MaxRows rows, one expanded and one a padded group
\* row, without spacer, whose total is above the plain sum of the heights.
C1_Witness ==
  /\ InitCacheDone
  /\ Len(treeArray) = MaxRows
  /\ lastCall.details.lastRowSpacerHeight = 0
  /\ lastCall.details.rowExpansions # {}
  /\ lastCall.details.groupPadding > 0
  /\ \E k \in 1..MaxRows : lastCall.details.rows[k].isRowGroup
  /\ query(This, MaxRows - 1).val
       > ComputedSum([lastCall.details EXCEPT !.rowExpansions = {},
                                              !.groupPadding = 0], 0, MaxRows - 1)

\* The arrays with the tree t live and no snapshot.
Live(t) == [treeArray |-> t, swapTreeArray |-> Null]

\* C2: from the clearCache of a tree built by a successful initCache over
\* n >= 1 rows until the next initCache completes, with no update or set in
\* between, query(i) returns for every i in 0..n-1 what it returned right
\* before that clearCache.
C2_QueryContinuity ==
  pending =>
    \A i \in 0..(Len(preClear) - 1) : query(This, i) = query(Live(preClear), i)

\* C3: from the clearCache of a tree built by a successful initCache over
\* n >= 1 rows until the next initCache completes, getRowIndex(y) returns
\* for every scroll offset y what it returned right before that clearCache.
C3_GetRowIndexContinuity ==
  pending =>
    \A y \in 0..(query(Live(preClear), Len(preClear) - 1).val + 1) :
      getRowIndex(This, y) = getRowIndex(Live(preClear), y)

\* Every slot of t has spacer 0.
NoSpacer(t) == \A k \in 1..Len(t) : t[k].rowSpacerHeight = 0

\* The height of row i the cache answers with.
RowHeightAt(i) == queryBetween(This, i, i).val

\* The scroll offset at the top of row i: query(i - 1), 0 for row 0.
TopOf(i) == IF i = 0 THEN 0 ELSE query(This, i - 1).val

\* A successful initCache over n >= 1 rows with no lastRowSpacerHeight has
\* just built the live tree (all heights of the model are non-negative).
BuiltWithoutSpacer ==
  /\ InitCacheDone
  /\ Len(treeArray) >= 1
  /\ lastCall.details.lastRowSpacerHeight = 0

\* C4 as claimed: for a tree built by initCache from non-negative heights
\* with no spacer, getRowIndex(query(i-1)) returns i for every row i of
\* non-zero height.
C4_IndexInversionAsClaimed ==
  BuiltWithoutSpacer =>
    \A i \in 0..(Len(treeArray) - 1) :
      RowHeightAt(i) > 0 => getRowIndex(This, TopOf(i)) = i

\* C4 as amended: for a tree built by initCache from non-negative heights
\* with no spacer, getRowIndex(query(i-1)) returns i for every row i of
\* non-zero height that is row 0 or has a row of non-zero height before it
\* (query(i-1) > 0); when every row before i has height 0 the argument is 0
\* and getRowIndex returns 0.
C4_IndexInversion ==
  BuiltWithoutSpacer =>
    \A i \in 0..(Len(treeArray) - 1) :
      RowHeightAt(i) > 0 =>
        getRowIndex(This, TopOf(i)) = (IF TopOf(i) > 0 THEN i ELSE 0)

\* C4 witness: getRowIndex was called with the top offset of the last of
\* MaxRows rows, a row of non-zero height after a row of height 0, and
\* returned that row.
C4_Witness ==
  /\ Len(treeArray) = MaxRows
  /\ NoSpacer(treeArray)
  /\ RowHeightAt(MaxRows - 1) > 0
  /\ RowHeightAt(MaxRows - 2) = 0
  /\ lastCall.op = "getRowIndex"
  /\ lastCall.scrollY = TopOf(MaxRows - 1)
  /\ lastCall.scrollY > 0
  /\ result = Ok(MaxRows - 1)

\* The live tree is not empty, carries no spacer and answers with a
\* non-negative height for every row.
PlainTree ==
  /\ Len(treeArray) >= 1
  /\ NoSpacer(treeArray)
  /\ \A i \in 0..(Len(treeArray) - 1) : RowHeightAt(i) >= 0

\* query(n - 1) of the live tree.
TotalHeight == query(This, Len(treeArray) - 1).val

\* C5 as claimed: getRowIndex(y), y > 0, is the first row index r whose
\* prefix sum reaches or exceeds y: query(r) >= y and query(r-1) < y.
C5_FirstReachingAsClaimed ==
  PlainTree =>
    \A y \in 1..TotalHeight :
      LET r == getRowIndex(This, y)
      IN  /\ r < Len(treeArray)
          /\ query(This, r).val >= y
          /\ query(This, r - 1).val < y

\* C5 as amended: on a non-empty tree without spacers and with non-negative
\* row heights, getRowIndex(y), y > 0, is the first row index r whose prefix
\* sum exceeds y: query(r-1) <= y, and query(r) > y unless r = n, which is
\* returned when y >= query(n-1).
C5_FirstExceeding ==
  PlainTree =>
    \A y \in 1..(TotalHeight + 1) :
      LET r == getRowIndex(This, y)
      IN  /\ r \in 0..Len(treeArray)
          /\ query(This, r - 1).val <= y
          /\ r < Len(treeArray) => query(This, r).val > y
          /\ r = Len(treeArray) <=> y >= TotalHeight

\* C5 witness: getRowIndex was called with exactly the prefix sum of row 0
\* of a plain tree of MaxRows rows and returned row 1, whose prefix sum is
\* the first above it.
C5_Witness ==
  /\ PlainTree
  /\ Len(treeArray) = MaxRows
  /\ lastCall.op = "getRowIndex"
  /\ lastCall.scrollY = query(This, 0).val
  /\ lastCall.scrollY > 0
  /\ result = Ok(1)
  /\ query(This, 1).val > lastCall.scrollY

\* A live tree or a snapshot exists.
Initialized == ~(Len(treeArray) = 0 /\ swapTreeArray.null)

\* Slots of the array the cache answers from.
SourceLen == Len(sourceOf(This))

\* The arrays an operation has left.
After(r) == [treeArray |-> r.treeArray, swapTreeArray |-> r.swapTreeArray]

\* Deltas and values the claims about update and set range over.
ClaimDeltas == -2..2
ClaimValues == 0..4

\* C6: on an initialized tree of n rows, update(i, d) without spacer makes
\* queryBetween(i, i) larger by exactly d, leaves queryBetween(j, j)
\* unchanged for every j # i and leaves the number of slots unchanged.
C6_UpdateFrame ==
  Initialized =>
    \A i \in 0..(SourceLen - 1), d \in ClaimDeltas :
      LET r == update(This, i, d, -1)
      IN  /\ r.err = "none"
          /\ Len(sourceOf(After(r))) = SourceLen
          /\ \A j \in 0..(SourceLen - 1) :
               queryBetween(After(r), j, j)
                 = Ok(RowHeightAt(j) + (IF j = i THEN d ELSE 0))

\* C6 witness: update(0, d) without spacer was applied to a live tree of
\* MaxRows rows of height 2; row 0 answers 2 + d, every other row still 2.
C6_Witness ==
  /\ lastCall.op = "update"
  /\ result.err = "none"
  /\ lastCall.spacerHeight = -1
  /\ lastCall.atRowIndex = 0
  /\ lastCall.byRowHeight # 0
  /\ Len(treeArray) = MaxRows
  /\ RowHeightAt(0) = 2 + lastCall.byRowHeight
  /\ \A j \in 1..(MaxRows - 1) : RowHeightAt(j) = 2

\* C7: set(i, v) returns true exactly when v differs from the current
\* queryBetween(i, i); afterwards queryBetween(i, i) = v, and a repeated
\* set(i, v) returns false and changes no stored height; also on trees
\* whose slots carry spacers.
C7_SetIdempotent ==
  Initialized =>
    \A i \in 0..(SourceLen - 1), v \in ClaimValues :
      LET first  == set(This, i, v)
          second == set(After(first), i, v)
      IN  /\ first.err = "none"
          /\ first.val = (v # RowHeightAt(i))
          /\ queryBetween(After(first), i, i) = Ok(v)
          /\ second.err = "none"
          /\ second.val = FALSE
          /\ After(second) = After(first)

\* C7 witness: set(i, v) has changed a row of a live tree of MaxRows rows
\* that carries a spacer, and the row now answers v.
C7_Witness ==
  /\ lastCall.op = "set"
  /\ result = [err |-> "none", val |-> TRUE]
  /\ Len(treeArray) = MaxRows
  /\ ~NoSpacer(treeArray)
  /\ RowHeightAt(lastCall.atRowIndex) = lastCall.value

\* C8: query and update raise the uninitialized-structure error exactly in
\* the states before any initCache (with a valid configuration, an empty
\* row list included) or clearCache call, and never after one.
C8_UninitializedOnlyBeforeFirstCall ==
  /\ (query(This, 0).err = "uninitialized") <=> ~started
  /\ (update(This, 0, 1, -1).err = "uninitialized") <=> ~started

\* Arguments with a rowHeight or a detailRowHeight that is neither a
\* function nor a number.
RejectedInputs ==
  { [d EXCEPT !.rowHeight = bad] : d \in InitInputs, bad \in {HeightNaN, HeightAuto} }
  \cup
  { [d EXCEPT !.detailRowHeight = bad] : d \in InitInputs, bad \in {HeightNaN, HeightAuto} }

C10_RebuildAuthoritative ==
  (InitCacheDone /\ Len(treeArray) >= 1) =>
    LET new == After(initCache(Live(<<>>), lastCall.details))
    IN  /\ swapTreeArray.null
        /\ \A i \in -1..(Len(treeArray) - 1) : query(This, i) = query(new, i)
        /\ \A y \in 0..(TotalHeight + 1) :
             getRowIndex(This, y) = getRowIndex(new, y)

\* C10 witness: a rebuild over MaxRows rows has completed after update or
\* set had changed the snapshot retained by the clearCache before it.
C10_Witness ==
  /\ InitCacheDone
  /\ Len(treeArray) = MaxRows
  /\ dirty
  /\ swapTreeArray.null

\* Row indexes update and set are asked about in the claims on failures:
\* every slot and the index one past the last.
ClaimIndexes == 0..MaxRows

\* C11: initCache with a valid configuration completes and leaves a live
\* tree of exactly rowCount slots when externalVirtual is set (also when
\* rowCount is above the number of rows supplied) and of exactly
\* rows.length slots otherwise; update and set never change the number of
\* slots.
C11_TreeSize ==
  /\ (lastCall.op = "initCache" /\ result.err # "config") =>
       /\ result.err = "none"
       /\ Len(treeArray) = (IF lastCall.details.externalVirtual
                            THEN lastCall.details.rowCount
                            ELSE Len(lastCall.details.rows))
  /\ Initialized =>
       \A i \in ClaimIndexes, d \in ClaimDeltas :
         /\ Len(sourceOf(After(update(This, i, d, -1)))) = SourceLen
         /\ i < SourceLen => Len(sourceOf(After(set(This, i, d + 2)))) = SourceLen

\* C12: initCache, update and set either complete or raise an error that
\* leaves the live tree and the snapshot exactly as they were before the
\* call (clearCache raises nothing, query writes nothing).
C12_NoPartialFailure ==
  /\ \A d \in InitInputs :
       LET r == initCache(This, d)
       IN  r.err # "none" => After(r) = This
  /\ \A i \in ClaimIndexes :
       /\ LET r == update(This, i, 1, -1)
          IN  r.err # "none" => After(r) = This
       /\ LET r == set(This, i, 1)
          IN  r.err # "none" => After(r) = This

\* C13: a non-empty live tree never coexists with a retained (non-null)
\* snapshot.
C13_SingleSourceOfTruth ==
  ~(Len(treeArray) > 0 /\ ~swapTreeArray.null)

\* C14: after a successful initCache over n >= 1 rows with no
\* lastRowSpacerHeight, queryBetween(a, b) is the sum of the computed
\* heights of rows a..b for all 0 <= a <= b < n; with no row expanded and no
\* group padding these are the heights h[a..b] themselves.
C14_RangeQuery ==
  BuiltWithoutSpacer =>
    \A a \in 0..(Len(treeArray) - 1) :
      \A b \in a..(Len(treeArray) - 1) :
        queryBetween(This, a, b) = Ok(ComputedSum(lastCall.details, a, b))

\* C14 witness: queryBetween(1, MaxRows - 1) was called on a tree of
\* MaxRows rows without spacer whose row 0 has a height, and returned the
\* total less that height.
C14_Witness ==
  /\ lastCall.op = "queryBetween"
  /\ lastCall.atIndexA = 1
  /\ lastCall.atIndexB = MaxRows - 1
  /\ Len(treeArray) = MaxRows
  /\ NoSpacer(treeArray)
  /\ RowHeightAt(0) > 0
  /\ result.err = "none"
  /\ result.val > 0
  /\ result.val = TotalHeight - RowHeightAt(0)

\* A rebuild is pending: the live tree is empty and a snapshot of n >= 1
\* rows is retained.
RebuildPending ==
  /\ Len(treeArray) = 0
  /\ ~swapTreeArray.null
  /\ Len(swapTreeArray.arr) >= 1

\* C15: while a rebuild is pending, update(i, d) and set(i, v) raise no
\* error and are applied to the snapshot: afterwards queryBetween(i, i) is
\* larger by d, respectively equal to v, query(i) has moved by the same
\* amount, and the live tree is still empty.
C15_UpdateOnSnapshot ==
  RebuildPending =>
    \A i \in 0..(SourceLen - 1) :
      /\ \A d \in ClaimDeltas :
           LET r == update(This, i, d, -1)
           IN  /\ r.err = "none"
               /\ r.treeArray = <<>>
               /\ ~r.swapTreeArray.null
               /\ queryBetween(After(r), i, i) = Ok(RowHeightAt(i) + d)
               /\ query(After(r), i) = Ok(query(This, i).val + d)
      /\ \A v \in ClaimValues :
           LET r == set(This, i, v)
           IN  /\ r.err = "none"
               /\ r.treeArray = <<>>
               /\ ~r.swapTreeArray.null
               /\ queryBetween(After(r), i, i) = Ok(v)
               /\ query(After(r), i) = Ok(query(This, i).val + v - RowHeightAt(i))

\* C15 witness: update(i, d) has returned normally while a rebuild was
\* pending over a snapshot of MaxRows rows of height 2; the snapshot has
\* changed, row i now answers 2 + d, and the live tree is empty.
C15_Witness ==
  /\ RebuildPending
  /\ Len(swapTreeArray.arr) = MaxRows
  /\ lastCall.op = "update"
  /\ result.err = "none"
  /\ dirty
  /\ lastCall.byRowHeight # 0
  /\ RowHeightAt(lastCall.atRowIndex) = 2 + lastCall.byRowHeight
  /\ query(This, MaxRows - 1) = Ok(2 * MaxRows + lastCall.byRowHeight)

\* Row i carries the spacer as the claims word it: it is not a group row,
\* and it is the last row or the row right before a group row.
SpacerRow(details, i) ==
  /\ ~details.rows[i + 1].isRowGroup
  /\ \/ i = Len(details.rows) - 1
     \/ details.rows[i + 2].isRowGroup

\* The rows of details that carry the spacer.
SpacerRowsOf(details) ==
  { i \in 0..(Len(details.rows) - 1) : SpacerRow(details, i) }

\* A successful initCache over n >= 1 rows with a lastRowSpacerHeight > 0
\* has just built the live tree.
BuiltWithSpacer ==
  /\ InitCacheDone
  /\ Len(treeArray) >= 1
  /\ lastCall.details.lastRowSpacerHeight > 0

\* C16: after initCache with lastRowSpacerHeight = s > 0, queryBetween(i, i)
\* is the computed height of row i, plus s when row i carries the spacer,
\* for every row i; and query(n-1) is the sum of the computed heights plus
\* s times the number of rows that carry the spacer.
C16_SpacerPerRow ==
  BuiltWithSpacer =>
    LET details == lastCall.details
        s       == details.lastRowSpacerHeight
        n       == Len(treeArray)
    IN  /\ \A i \in 0..(n - 1) :
             queryBetween(This, i, i)
               = Ok(ComputedHeight(details, i)
                    + (IF SpacerRow(details, i) THEN s ELSE 0))
        /\ query(This, n - 1)
             = Ok(ComputedSum(details, 0, n - 1)
                  + s * Cardinality(SpacerRowsOf(details)))

\* C17: for a tree built by initCache over n >= 1 rows, group rows and a
\* lastRowSpacerHeight > 0 included, and every offset y > 0,
\* r = getRowIndex(y) satisfies query(r-1) <= y, and y < query(r) when
\* r < n.
C17_IndexConsistentWithSpacer ==
  (InitCacheDone /\ Len(treeArray) >= 1) =>
    \A y \in 1..(TotalHeight + 1) :
      LET r == getRowIndex(This, y)
      IN  /\ r \in 0..Len(treeArray)
          /\ query(This, r - 1).val <= y
          /\ r < Len(treeArray) => y < query(This, r).val

\* C18: after the clearCache of a tree built by a successful initCache over
\* n >= 1 rows, a further clearCache right after it leaves query(i)
\* returning, for every i in 0..n-1, the pre-rebuild value it returns after
\* the single clearCache.
C18_ClearCacheIdempotent ==
  (lastCall.op = "clearCache" /\ pending /\ swapTreeArray = Arr(preClear)) =>
    \A i \in 0..(Len(preClear) - 1) :
      /\ query(This, i) = query(Live(preClear), i)
      /\ query(After(clearCache(This)), i) = query(This, i)

====
